---- MODULE Spec2Model ----
(***************************************************************************)
(* Hybrid Monte Carlo / NPT sampler driving an external MD engine          *)
(* (Code_and_Examples/LJ_Argon_132K_NVT/hmc_npt.py).                       *)
(*                                                                         *)
(* The script is one sequential program; pc is its position.  Floating     *)
(* point values are fixed-point integers:                                  *)
(*   - probabilities, uniform draws and values of exp: units of 1/EScale   *)
(*   - energies, log-volumes and Metropolis arguments: units of 1/LnS      *)
(*   - lengths: "fine" units, finer than the 10 decimals that "%.10f"      *)
(*     keeps (FmtStep fine units = one unit of the 10th decimal)           *)
(*   - volumes: fine units cubed                                           *)
(* The MD engine (LAMMPS) is an external collaborator: what it reports     *)
(* for energies and where a trajectory ends are nondeterministic choices   *)
(* from small sets; what the script sends to it is modelled exactly.       *)
(*                                                                         *)
(* The trial names (x_new, pe_new, vol_new, box_new, arg) are assigned     *)
(* in every sweep before they are read, so their values do not outlive     *)
(* the sweep: the model forgets them when the sweep ends, together with    *)
(* the record of the sweep's draws and decision.                           *)
(***************************************************************************)
EXTENDS Integers, Sequences, FiniteSets, TLC

VARIABLES
  cfg,        \* run parameters, lines 8-23
  py,         \* major version of the interpreter running the script (2 or 3)
  pc,         \* position of the script
  err,        \* exception that ended the run ("" when none)
  isweep,     \* loop variable of the MC loop (number of completed sweeps)
  x, x_new, v,              \* coordinate and velocity arrays of the script
  pe, box, vol,             \* committed potential energy, box edge, volume
  n_acc_hmc, n_try_hmc, n_acc_vol, n_try_vol,
  pe_new, vol_new, box_new, arg,  \* trial values of the current sweep
  dH, dH_bound,             \* dH and whether the name dH is bound yet
  lmp_x, lmp_box,           \* configuration held by the engine
  thermo_at,  \* sweeps that appended a record to thermo.dat
  traj_at,    \* sweeps that appended a frame to traj.dat
  ra_at,      \* sweeps that wrote restart_a.dat
  rb_at,      \* sweeps that wrote restart_b.dat
  flush_at,   \* sweeps that flushed the files
  out,        \* what the last File I/O block wrote, in order
  move, r_sel, u_acc, accepted,   \* this sweep: move, selection draw, acceptance draw, decision
  ivel,       \* loop variable i of init_vel
  draws,      \* draws taken from the random stream in the current sweep, in order
  ndraws      \* draws taken from the random stream since the start of the run

vars == <<cfg, py, pc, err, isweep, x, x_new, v, pe, box, vol,
          n_acc_hmc, n_try_hmc, n_acc_vol, n_try_vol,
          pe_new, vol_new, box_new, arg, dH, dH_bound, lmp_x, lmp_box,
          thermo_at, traj_at, ra_at, rb_at, flush_at, out, move, r_sel, u_acc, accepted, ivel, draws, ndraws>>

----------------------------------------------------------------------------
(* Bounds of the model *)

MaxSweeps == 4      \* n_sweeps of a valid run
natoms == 1         \* atoms in the engine's data file

(* Fixed-point resolutions *)
EScale == 1000      \* 1.0 as a probability / value of exp
LnS == 4            \* 1.0 as an energy or a logarithm
FmtStep == 2        \* fine length units per unit of the 10th decimal
ExpTabMax == 30     \* largest tabulated exponent, in 1/LnS
ExpMaxArg == 2839   \* math.exp(z) raises OverflowError for z > 709.78 = 2839/LnS
Pc == 100           \* pressure conversion factor, model units

(* Values the random stream can return *)
UVals == {0, 500, 778, 999}        \* random.random(), in [0, 1)
\* random.gauss(0, 1): the script never reads a velocity, it only sends
\* them to the engine, so one representative deviate stands for all
GaussVals == {1}

(* Values the engine can report *)
PEVals == {0, 3000}                \* thermo_pe
KEVals == {0, 1}                   \* thermo_ke
MDShifts == {1}                    \* displacement of a coordinate over one trajectory
InitBoxVals == {6, 7}              \* boxxhi - boxxlo of the data file

----------------------------------------------------------------------------
(* Arithmetic *)

Abs(a) == IF a < 0 THEN -a ELSE a

\* a / b on floats, rounded to the nearest fixed-point value (b # 0)
FDiv(a, b) ==
  LET n == IF b < 0 THEN -a ELSE a
      d == Abs(b)
  IN  IF n >= 0 THEN (2 * n + d) \div (2 * d) ELSE -((2 * (-n) + d) \div (2 * d))

\* Python's a % b for ints (b # 0): the result has the sign of b
PyMod(a, b) == IF b > 0 THEN a % b ELSE -((-a) % (-b))

\* exp(k / LnS) * EScale for k in 0..ExpTabMax, rounded
ExpTable ==
  <<1000, 1284, 1649, 2117, 2718, 3490, 4482, 5755, 7389, 9488, 12182, 15643,
    20086, 25790, 33115, 42521, 54598, 70105, 90017, 115584, 148413, 190566,
    244692, 314191, 403429, 518013, 665142, 854059, 1096633, 1408105, 1808042>>
ExpTab(k) == ExpTable[k + 1]

\* math.exp(z) raises OverflowError
ExpOverflows(z) == z > ExpMaxArg

\* math.exp(z), z in 1/LnS, result in 1/EScale (values above the table's
\* top are held at the top: they are only ever compared with draws below 1)
MathExp(z) ==
  IF z >= 0 THEN ExpTab(IF z > ExpTabMax THEN ExpTabMax ELSE z)
  ELSE IF -z > ExpTabMax THEN 0
  ELSE (EScale * EScale) \div ExpTab(-z)

\* math.log(q), q > 0 in 1/EScale, result in 1/LnS (nearest tabulated exponent)
LogUp(q) ==
  LET lo == CHOOSE k \in 0..ExpTabMax :
              ExpTab(k) <= q /\ (k = ExpTabMax \/ q < ExpTab(k + 1))
  IN  IF lo < ExpTabMax /\ ExpTab(lo + 1) - q < q - ExpTab(lo) THEN lo + 1 ELSE lo
MathLog(q) == IF q >= EScale THEN LogUp(q) ELSE -LogUp((EScale * EScale) \div q)

\* math.pow(b, 3)
Cube(b) == b * b * b

\* math.pow(w, 1.0/3.0), rounded to the nearest length
CubeRoot(w) ==
  CHOOSE b \in 0..20 : Cube(2 * b - 1) < 8 * w /\ 8 * w <= Cube(2 * b + 1)

\* math.sqrt(a), a >= 0
Sqrt(a) == CHOOSE s \in 0..a : s * s <= a /\ a < (s + 1) * (s + 1)

\* float("%.10f" % L): L rounded to the 10th decimal, ties to even
Fmt10(L) ==
  LET q == L \div FmtStep
      rem == L % FmtStep
  IN  IF 2 * rem < FmtStep THEN q * FmtStep
      ELSE IF 2 * rem > FmtStep THEN (q + 1) * FmtStep
      ELSE IF q % 2 = 0 THEN q * FmtStep ELSE (q + 1) * FmtStep

----------------------------------------------------------------------------
(* Run parameters, lines 8-23.  p_hmc in 1/EScale, lnvol_max in 1/LnS. *)

BaseCfg ==
  [T |-> 1, P |-> 1, n_sweeps |-> MaxSweeps, n_steps |-> 10, p_hmc |-> 500,
   lnvol_max |-> 2, freq_thermo |-> 2, freq_traj |-> 4, freq_restart |-> 4,
   freq_flush |-> 2]

ValidCfgs == {[BaseCfg EXCEPT !.p_hmc = p] : p \in {0, 500, 1000, 1100}}

InvalidCfgs ==
  {[BaseCfg EXCEPT !.T = 0],
   [BaseCfg EXCEPT !.T = -1, !.n_sweeps = 2],
   [BaseCfg EXCEPT !.P = 0, !.n_sweeps = 2],
   [BaseCfg EXCEPT !.P = -1, !.n_sweeps = 2],
   [BaseCfg EXCEPT !.n_sweeps = 0],
   [BaseCfg EXCEPT !.p_hmc = -100, !.n_sweeps = 2],
   [BaseCfg EXCEPT !.lnvol_max = -2, !.n_sweeps = 2],
   [BaseCfg EXCEPT !.freq_thermo = -2, !.n_sweeps = 2]}

Configs == ValidCfgs \cup InvalidCfgs

\* the runs considered: the valid configurations under Python 3 and the
\* base configuration under Python 2; and those with the invalid ones
Runs == (ValidCfgs \X {3}) \cup {<<BaseCfg, 2>>}
AnyRuns == Runs \cup (InvalidCfgs \X {3})

----------------------------------------------------------------------------
(* Derived constants, lines 30-44, in model units (R/4.184 = 1). *)

kTL == cfg.T                 \* thermal energy, line 36
vf == 4 * cfg.T              \* velocity prefactor, line 39

\* Pf * dV, line 44 and line 197: Pf = Pb/(Pc*T), in 1/LnS
PfTimes(dV) == FDiv(cfg.P * LnS * dV, Pc * cfg.T)

\* engine energy -> dimensionless energy, lines 93, 147, 154, 155, 194
Reduced(e) == FDiv(e, kTL)

----------------------------------------------------------------------------
(* Engine data, lines 65-68 *)

Coords == 0..(3 * natoms - 1)
atype == [i \in 0..(natoms - 1) |-> 1]
mass == [t \in {1} |-> 1]
InitX == [i \in Coords |-> 2 + (i % 4)]
Zeros == [i \in Coords |-> 0]

\* the script starts: the run parameters are set (lines 8-23), nothing
\* else has been computed
Start(runs) ==
  /\ \E run \in runs : cfg = run[1] /\ py = run[2]
  /\ pc = "constants"
  /\ err = ""
  /\ isweep = 0
  /\ x = Zeros /\ x_new = Zeros /\ v = Zeros
  /\ pe = 0 /\ box = 0 /\ vol = 0
  /\ n_acc_hmc = 0 /\ n_try_hmc = 0 /\ n_acc_vol = 0 /\ n_try_vol = 0
  /\ pe_new = 0 /\ vol_new = 0 /\ box_new = 0 /\ arg = 0
  /\ dH = 0 /\ dH_bound = FALSE
  /\ lmp_x = Zeros /\ lmp_box = 0
  /\ thermo_at = {} /\ traj_at = {} /\ ra_at = {} /\ rb_at = {} /\ flush_at = {}
  /\ out = <<>>
  /\ move = "" /\ r_sel = 0 /\ u_acc = 0 /\ accepted = FALSE
  /\ ivel = 0 /\ draws = <<>> /\ ndraws = 0

Init == Start(Runs)
InitAnyConfig == Start(AnyRuns)

Raise(e) == pc' = "error" /\ err' = e

committed == <<pe, vol, box, x>>
counters == <<n_acc_hmc, n_try_hmc, n_acc_vol, n_try_vol>>
trial == <<x_new, pe_new, vol_new, box_new, arg>>
engineState == <<lmp_x, lmp_box>>
outputs == <<thermo_at, traj_at, ra_at, rb_at, flush_at, out>>
sweepState == <<move, r_sel, u_acc, accepted, ivel, draws, ndraws>>

\* lines 30-44: Pf = Pb/(Pc*T) divides by T
DeriveConstants ==
  /\ pc = "constants"
  /\ IF cfg.T = 0 THEN Raise("ZeroDivisionError")
     ELSE pc' = "setup" /\ err' = err
  /\ UNCHANGED <<cfg, py, isweep, committed, counters, trial, v, dH, dH_bound,
                 engineState, outputs, sweepState>>

\* lines 50-103: load the engine, gather x, read pe, box and vol
Initialize ==
  /\ pc = "setup"
  /\ \E b \in InitBoxVals, e \in PEVals :
       /\ lmp_x' = InitX /\ lmp_box' = b
       /\ x' = InitX
       /\ pe' = Reduced(e)
       /\ box' = b
       /\ vol' = Cube(b)
  /\ pc' = "loop"
  /\ UNCHANGED <<cfg, py, err, isweep, counters, trial, v, dH, dH_bound,
                 outputs, sweepState>>

Draw(kind, i, c) == [k |-> kind, atom |-> i, comp |-> c, sweep |-> isweep + 1]

\* the selection with a strict comparison
SelectHMCStrict(r) == r < cfg.p_hmc

\* line 137: the HMC move is selected
SelectHMC(r) == r <= cfg.p_hmc

\* lines 134-143, 170-176: one draw selects the move; the trial counter is
\* updated and the committed coordinates are scattered to the engine
SelectMove ==
  /\ pc = "loop" /\ isweep < cfg.n_sweeps
  /\ \E r \in UVals :
       /\ r_sel' = r
       /\ draws' = <<Draw("select", 0, 0)>>
       /\ ndraws' = ndraws + 1
       /\ IF SelectHMC(r)
          THEN /\ move' = "hmc"
               /\ n_try_hmc' = n_try_hmc + 1
               /\ pc' = "init_vel"
               /\ UNCHANGED n_try_vol
          ELSE /\ move' = "vol"
               /\ n_try_vol' = n_try_vol + 1
               /\ pc' = "vol_propose"
               /\ UNCHANGED n_try_hmc
  /\ lmp_x' = x
  /\ ivel' = 0
  /\ out' = <<>>
  /\ UNCHANGED <<cfg, py, err, isweep, committed, n_acc_hmc, n_acc_vol, trial, v,
                 dH, dH_bound, lmp_box, thermo_at, traj_at, ra_at, rb_at,
                 flush_at, u_acc, accepted>>

\* the draws of atom i with the components filled from the last to the first
InitVelDrawsReversed(i) == <<Draw("gauss", i, 2), Draw("gauss", i, 1), Draw("gauss", i, 0)>>

\* lines 117-119: the draws of atom i, in order
InitVelDraws(i) == <<Draw("gauss", i, 0), Draw("gauss", i, 1), Draw("gauss", i, 2)>>

\* lines 114-119: one iteration of init_vel's loop
InitVelAtom ==
  /\ pc = "init_vel" /\ ivel < natoms
  /\ LET indx == 3 * ivel
         q == FDiv(vf, mass[atype[ivel]])
     IN  IF q < 0
         THEN /\ Raise("ValueError")
              /\ UNCHANGED <<v, draws, ndraws, ivel>>
         ELSE \E g0 \in GaussVals, g1 \in GaussVals, g2 \in GaussVals :
                /\ v' = [v EXCEPT ![indx] = g0 * Sqrt(q),
                                  ![indx + 1] = g1 * Sqrt(q),
                                  ![indx + 2] = g2 * Sqrt(q)]
                /\ draws' = draws \o InitVelDraws(ivel)
                /\ ndraws' = ndraws + 3
                /\ ivel' = ivel + 1
                /\ pc' = IF ivel + 1 = natoms THEN "hmc_run" ELSE "init_vel"
                /\ err' = err
  /\ UNCHANGED <<cfg, py, isweep, committed, counters, trial, dH, dH_bound,
                 engineState, outputs, move, r_sel, u_acc, accepted>>

\* lines 120-121, 147-159: scatter v, run 0, read ke; run n_steps; read the
\* new energies; dH
HmcTrajectory ==
  /\ pc = "hmc_run"
  /\ \E ke0 \in KEVals, pe1 \in PEVals, ke1 \in KEVals, d \in MDShifts :
       LET ke == Reduced(ke0)
           etot == pe + ke
           ke_new == Reduced(ke1)
           etot_new == Reduced(pe1) + ke_new
       IN  /\ lmp_x' = [i \in Coords |-> lmp_x[i] + d]
           /\ pe_new' = Reduced(pe1)
           /\ dH' = etot_new - etot
  /\ dH_bound' = TRUE
  /\ pc' = "hmc_accept"
  /\ UNCHANGED <<cfg, py, err, isweep, committed, counters, x_new, vol_new,
                 box_new, arg, v, lmp_box, outputs, sweepState>>

\* lines 162, 200: random.random() <= math.exp(-a)
Metropolis(u, a) == u <= MathExp(-a)

\* the commit with pe = pe_new hoisted above the test
HmcCommitEager(acc) == IF acc THEN <<pe_new, lmp_x>> ELSE <<pe_new, x>>

\* lines 164-167: the committed energy and coordinates after the decision
HmcCommit(acc) == IF acc THEN <<pe_new, lmp_x>> ELSE <<pe, x>>

\* lines 162-167: the left operand is drawn before math.exp is evaluated
HmcAccept ==
  /\ pc = "hmc_accept"
  /\ \E u \in UVals :
       /\ u_acc' = u
       /\ draws' = Append(draws, Draw("accept", 0, 0))
       /\ ndraws' = ndraws + 1
       /\ IF ExpOverflows(-dH)
          THEN /\ Raise("OverflowError")
               /\ UNCHANGED <<n_acc_hmc, pe, x, x_new, accepted>>
          ELSE /\ pc' = "report" /\ err' = err
               /\ accepted' = Metropolis(u, dH)
               /\ n_acc_hmc' = IF accepted' THEN n_acc_hmc + 1 ELSE n_acc_hmc
               /\ x_new' = IF accepted' THEN lmp_x ELSE x_new
               /\ pe' = HmcCommit(accepted')[1]
               /\ x' = HmcCommit(accepted')[2]
  /\ UNCHANGED <<cfg, py, isweep, v, box, vol, n_try_hmc, n_acc_vol, n_try_vol,
                 pe_new, vol_new, box_new, arg, dH, dH_bound, engineState,
                 outputs, move, r_sel, ivel>>

\* line 179: log-volume of the trial, in 1/LnS
LnVolTrial(u) == MathLog(vol * EScale) + FDiv((2 * u - EScale) * cfg.lnvol_max, 2 * EScale)

\* lines 187-189: the coordinates scaled by scalef = b_new / b
Scaled(xs, b_new, b) ==
  LET scalef == FDiv(b_new * EScale, b)
  IN  [i \in Coords |-> FDiv(scalef * xs[i], EScale)]

\* line 197: argument of the volume move's acceptance criterion, in 1/LnS
VolArg(p_new, p_old, v_new, v_old) ==
  (p_new - p_old) + PfTimes(v_new - v_old)
    - (natoms + 1) * MathLog(FDiv(v_new * EScale, v_old))

\* lines 184, 208: change_box ... %.10f: the edge the engine is given
ChangeBox(L) == Fmt10(L)

\* lines 179-197: propose the volume, resize the engine's box, scale and
\* scatter the coordinates, run 0, read the new energy, compute arg
VolPropose ==
  /\ pc = "vol_propose"
  /\ \E u \in UVals, pe1 \in PEVals :
       LET vn == FDiv(MathExp(LnVolTrial(u)), EScale)
           bn == CubeRoot(vn)
       IN  /\ vol_new' = vn
           /\ box_new' = bn
           /\ lmp_box' = ChangeBox(bn)
           /\ x_new' = Scaled(x, bn, box)
           /\ lmp_x' = Scaled(x, bn, box)
           /\ pe_new' = Reduced(pe1)
           /\ arg' = VolArg(Reduced(pe1), pe, vn, vol)
  /\ draws' = Append(draws, Draw("lnvol", 0, 0))
  /\ ndraws' = ndraws + 1
  /\ pc' = "vol_accept"
  /\ UNCHANGED <<cfg, py, err, isweep, committed, counters, v, dH, dH_bound,
                 outputs, move, r_sel, u_acc, accepted, ivel>>

\* lines 202-206: the committed state after the decision
VolCommit(acc) == IF acc THEN <<pe_new, vol_new, box_new, x_new>> ELSE <<pe, vol, box, x>>

\* lines 200-208
VolAccept ==
  /\ pc = "vol_accept"
  /\ \E u \in UVals :
       /\ u_acc' = u
       /\ draws' = Append(draws, Draw("accept", 0, 0))
       /\ ndraws' = ndraws + 1
       /\ IF ExpOverflows(-arg)
          THEN /\ Raise("OverflowError")
               /\ UNCHANGED <<n_acc_vol, committed, lmp_box, accepted>>
          ELSE /\ pc' = "report" /\ err' = err
               /\ accepted' = Metropolis(u, arg)
               /\ n_acc_vol' = IF accepted' THEN n_acc_vol + 1 ELSE n_acc_vol
               /\ pe' = VolCommit(accepted')[1]
               /\ vol' = VolCommit(accepted')[2]
               /\ box' = VolCommit(accepted')[3]
               /\ x' = VolCommit(accepted')[4]
               /\ lmp_box' = IF accepted' THEN lmp_box ELSE ChangeBox(box)
  /\ UNCHANGED <<cfg, py, isweep, trial, v, n_acc_hmc, n_try_hmc, n_try_vol,
                 dH, dH_bound, lmp_x, outputs, move, r_sel, ivel>>

\* lines 125-130
acc_ratio(acc, trys) == IF trys = 0 THEN 0 ELSE FDiv(acc * EScale, trys)

\* lines 212, 217, 223, 225: (isweep + 1) % freq == 0
Due(s, freq) == PyMod(s, freq) = 0

\* line 224: (isweep + 1) % freq_restart/2 == 0; % and / associate to the
\* left, and / on two ints floors under Python 2
RestartBDue(s) ==
  LET m == PyMod(s, cfg.freq_restart)
  IN  IF py = 2 THEN m \div 2 = 0 ELSE m = 0

\* lines 213-216: the record appended to thermo.dat; the virial is the
\* engine's, evaluated on the configuration the engine holds
ThermoRecord(s) ==
  [file |-> "thermo", sweep |-> s, pe |-> kTL * pe,
   virial |-> [x |-> lmp_x, box |-> lmp_box], vol |-> vol,
   hmc_acc |-> acc_ratio(n_acc_hmc, n_try_hmc),
   vol_acc |-> acc_ratio(n_acc_vol, n_try_vol), dH |-> dH]

\* lines 218-222
TrajFrame(s) == [file |-> "traj", sweep |-> s, natoms |-> natoms, box |-> box, x |-> x]

\* lines 223-224: write_data persists the configuration the engine holds
Snapshot(f, s) == [file |-> f, sweep |-> s, x |-> lmp_x, box |-> lmp_box]

When(cond, rec) == IF cond THEN <<rec>> ELSE <<>>

\* lines 212-227 and the loop increment
Report ==
  /\ pc = "report"
  /\ LET s == isweep + 1
         thermoDue == Due(s, cfg.freq_thermo)
         trajDue == Due(s, cfg.freq_traj)
         raDue == Due(s, cfg.freq_restart)
         rbDue == RestartBDue(s)
     IN  IF thermoDue /\ ~dH_bound
         THEN /\ Raise("NameError")
              /\ UNCHANGED <<isweep, outputs, trial, sweepState>>
         ELSE /\ thermo_at' = IF thermoDue THEN thermo_at \cup {s} ELSE thermo_at
              /\ traj_at' = IF trajDue THEN traj_at \cup {s} ELSE traj_at
              /\ ra_at' = IF raDue THEN ra_at \cup {s} ELSE ra_at
              /\ rb_at' = IF rbDue THEN rb_at \cup {s} ELSE rb_at
              /\ flush_at' = IF Due(s, cfg.freq_flush) THEN flush_at \cup {s} ELSE flush_at
              /\ out' = When(thermoDue, ThermoRecord(s)) \o When(trajDue, TrajFrame(s))
                          \o When(raDue, Snapshot("restart_a", s))
                          \o When(rbDue, Snapshot("restart_b", s))
              /\ isweep' = s
              /\ pc' = "loop" /\ err' = err
              \* the sweep is over
              /\ x_new' = Zeros /\ pe_new' = 0 /\ vol_new' = 0 /\ box_new' = 0 /\ arg' = 0
              /\ move' = "" /\ r_sel' = 0 /\ u_acc' = 0 /\ accepted' = FALSE
              /\ draws' = <<>>
              /\ UNCHANGED <<ivel, ndraws>>
  /\ UNCHANGED <<cfg, py, committed, counters, v, dH, dH_bound, engineState>>

\* lines 134, 229-231: the loop is exhausted; the files are closed
Finish ==
  /\ pc = "loop" /\ isweep >= cfg.n_sweeps
  /\ pc' = "done"
  /\ UNCHANGED <<cfg, py, err, isweep, committed, counters, trial, v, dH,
                 dH_bound, engineState, outputs, sweepState>>

Next ==
  \/ DeriveConstants
  \/ Initialize
  \/ SelectMove
  \/ InitVelAtom
  \/ HmcTrajectory
  \/ HmcAccept
  \/ VolPropose
  \/ VolAccept
  \/ Report
  \/ Finish

Spec == Init /\ [][Next]_vars

\* the same program, started with invalid run parameters as well
SpecAnyConfig == InitAnyConfig /\ [][Next]_vars

----------------------------------------------------------------------------
(* Vocabulary of the properties *)

InSweep == move # ""
SweepPcs == {"init_vel", "hmc_run", "hmc_accept", "vol_propose", "vol_accept", "report"}
Started == pc \notin {"constants", "setup"}

\* min(1, exp(-a)), in 1/EScale
MinOneExp(a) == IF a <= 0 THEN EScale ELSE MathExp(-a)

\* the acceptance draw of the current sweep has been taken
HmcDecided == move = "hmc" /\ Len(draws) = 3 * natoms + 2
VolDecided == move = "vol" /\ Len(draws) = 3

\* the File I/O block of sweep s has run (to its end, or into an exception)
Reported(s) == s <= isweep \/ (s = isweep + 1 /\ pc = "error" /\ err = "NameError")

InvalidCfg(c) ==
  \/ c.T <= 0 \/ c.P <= 0 \/ c.n_sweeps = 0
  \/ c.n_steps < 0 \/ c.p_hmc < 0 \/ c.lnvol_max < 0
  \/ c.freq_thermo < 0 \/ c.freq_traj < 0 \/ c.freq_restart < 0 \/ c.freq_flush < 0

----------------------------------------------------------------------------
\* C1: a rejected move leaves the committed pe, vol, box and x unchanged;
\* they change only in the decision step of an accepted move, and then take
\* the trial values (the engine's coordinates and pe_new for an HMC move;
\* pe_new, vol_new, box_new and the scaled coordinates for a volume move).
C1_RejectLeavesCommitted ==
  [][ /\ (pc \in {"hmc_accept", "vol_accept"} /\ pc' = "report" /\ ~accepted')
           => committed' = committed
      /\ (pc = "hmc_accept" /\ pc' = "report" /\ accepted')
           => (pe' = pe_new /\ x' = lmp_x /\ vol' = vol /\ box' = box)
      /\ (pc = "vol_accept" /\ pc' = "report" /\ accepted')
           => (pe' = pe_new /\ vol' = vol_new /\ box' = box_new /\ x' = x_new)
      /\ (Started /\ committed' # committed)
           => (pc \in {"hmc_accept", "vol_accept"} /\ accepted')
    ]_vars

\* a volume move is rejected although every trial value differs from the
\* committed one
C1_Witness ==
  /\ pc = "report" /\ move = "vol" /\ ~accepted
  /\ pe_new # pe /\ vol_new # vol /\ box_new # box /\ x_new # x
  /\ n_acc_hmc > 0

\* C2: once the acceptance draw u of an HMC move is taken, the sweep goes
\* on without error and the move is accepted iff u <= min(1, exp(-dH)),
\* for every dH, however negative.
C2_HmcAcceptIffMetropolis ==
  HmcDecided => (pc = "report" /\ (accepted <=> u_acc <= MinOneExp(dH)))

\* C3: arg = (PE' - PE) + Pf*(V' - V) - (N + 1)*ln(V'/V) on the committed
\* PE and V, and once the acceptance draw u of a volume move is taken the
\* move is accepted iff u <= min(1, exp(-arg)).
C3_VolAcceptIffMetropolis ==
  /\ pc = "vol_accept"
       => arg = (pe_new - pe) + PfTimes(vol_new - vol)
                  - (natoms + 1) * MathLog(FDiv(vol_new * EScale, vol))
  /\ VolDecided => (pc = "report" /\ (accepted <=> u_acc <= MinOneExp(arg)))

\* C4: between sweeps (before the first one too) vol = box^3 and the box
\* edge the engine holds is the committed box edge.
C4_VolumeIsCubeAndEngineBoxAgrees ==
  pc \in {"loop", "done"} => (vol = box * box * box /\ lmp_box = box)

\* what holds of the selection in every state
SelectionInv ==
  /\ InSweep => (move = "hmc" <=> r_sel <= cfg.p_hmc)
  /\ pc \in SweepPcs => InSweep
  /\ (InSweep /\ move = "hmc") => pc \in {"init_vel", "hmc_run", "hmc_accept", "report", "error"}
  /\ (InSweep /\ move = "vol") => pc \in {"vol_propose", "vol_accept", "report", "error"}
  /\ n_try_hmc + n_try_vol = isweep + (IF InSweep THEN 1 ELSE 0)
  /\ cfg.p_hmc >= EScale
       => /\ n_try_vol = 0 /\ n_acc_vol = 0 /\ move # "vol"
          /\ \A j \in 1..Len(out) : out[j].file = "thermo" => out[j].vol_acc = 0

\* C5: every sweep draws r once and runs exactly one move, the HMC move
\* iff r <= p_hmc, else the volume move; with p_hmc >= 1 no volume move is
\* ever tried or accepted, vol, box and the engine's box never change, and
\* every reported volume-move acceptance ratio is 0.
C5_PureNVT ==
  [](SelectionInv)
    /\ [][(cfg.p_hmc >= EScale /\ Started)
            => (vol' = vol /\ box' = box /\ lmp_box' = lmp_box)]_vars

\* a pure-NVT run has finished all its sweeps and reported
C5_Witness ==
  /\ cfg.p_hmc >= EScale /\ pc = "done" /\ isweep = MaxSweeps
  /\ n_try_hmc = MaxSweeps /\ n_acc_hmc > 0
  /\ \E j \in 1..Len(out) : out[j].file = "thermo"

\* C6: for every sweep s whose File I/O block has run, a thermodynamic
\* record is emitted iff s is a multiple of freq_thermo and a trajectory
\* frame iff s is a multiple of freq_traj, whatever p_hmc is.
C6_Cadence ==
  \A s \in 1..cfg.n_sweeps :
    Reported(s) => /\ s \in thermo_at <=> s % cfg.freq_thermo = 0
                   /\ s \in traj_at <=> s % cfg.freq_traj = 0

\* the draw expected at place j of a sweep running move m
ExpectedDraw(m, j) ==
  IF j = 1 THEN [k |-> "select", atom |-> 0, comp |-> 0, sweep |-> isweep + 1]
  ELSE IF m = "vol"
  THEN [k |-> IF j = 2 THEN "lnvol" ELSE "accept", atom |-> 0, comp |-> 0,
        sweep |-> isweep + 1]
  ELSE IF j = 3 * natoms + 2
  THEN [k |-> "accept", atom |-> 0, comp |-> 0, sweep |-> isweep + 1]
  ELSE [k |-> "gauss", atom |-> (j - 2) \div 3, comp |-> (j - 2) % 3,
        sweep |-> isweep + 1]

C8_InvalidConfigStopsBeforeFirstSweep ==
  InvalidCfg(cfg)
    => /\ pc \notin SweepPcs /\ pc # "done"
       /\ n_try_hmc = 0 /\ n_try_vol = 0 /\ n_acc_hmc = 0 /\ n_acc_vol = 0
       /\ thermo_at = {} /\ traj_at = {} /\ ra_at = {} /\ rb_at = {}
       /\ (pc = "error" => isweep = 0 /\ ~InSweep)

\* C9: restart_a is written exactly at the multiples of freq_restart and
\* restart_b exactly at the multiples of freq_restart/2.
C9_RestartCadence ==
  \A s \in 1..isweep :
    /\ s \in ra_at <=> s % cfg.freq_restart = 0
    /\ s \in rb_at <=> s % (cfg.freq_restart \div 2) = 0

\* C10: what the File I/O block took from the engine (a restart snapshot,
\* the virial of a thermodynamic record) was taken from the last accepted
\* configuration.  Stated for the atom positions, the committed x (the box
\* edge is the subject of C4).
C10_ReportedFromCommitted ==
  pc \in {"loop", "done"}
    => \A j \in 1..Len(out) :
         /\ out[j].file \in {"restart_a", "restart_b"} => out[j].x = x
         /\ out[j].file = "thermo" => out[j].virial.x = x

====
